---- MODULE Spec2Model ----
(***************************************************************************)
(* Pipeline throughput calculator (Throughput_Calculator_Source_GP.py).    *)
(*                                                                         *)
(* The program is a Tkinter application: two closed-form performance       *)
(* functions, and button callbacks that expand (min, max, resolution)      *)
(* ranges into axes, evaluate the functions over the axes and put the      *)
(* results into a figure and a table.                                      *)
(*                                                                         *)
(* Numbers.  Python floats are modelled as exact rationals [n, d] in       *)
(* lowest terms (d > 0): binary rounding error is abstracted away, every   *)
(* other step (truncation by int(), round(x, k), comparison, division by   *)
(* zero) is computed as the code computes it.  The text of a numeric       *)
(* StringVar is a decimal numeral with two fraction digits, held as its    *)
(* number of hundredths ("0.35" is 35); FloatOf and StrOf are float() and  *)
(* the text Tk stores for var.set(x).                                      *)
(***************************************************************************)
EXTENDS Integers, Sequences, FiniteSets, TLC

\* ------------------------------------------------------------ bounds ----
\* Callbacks the event loop dispatches in one run of the application.
MaxClicks == 3
\* Largest range bound (in steps of 0.1) the "+" buttons are pressed up to
\* in the range-buttons specification.
MaxTenths == 5
\* Pure-function inputs: probabilities k/ProbDen for k in -1..ProbDen+1,
\* penalties in -MaxPenalty..MaxPenalty.
ProbDen == 4
MaxPenalty == 4

\* --------------------------------------------------------- rationals ----
Abs(x) == IF x < 0 THEN -x ELSE x

RECURSIVE GCD(_, _)
GCD(a, b) == IF b = 0 THEN a ELSE GCD(b, a % b)

\* The rational n/d (d # 0) in lowest terms with a positive denominator.
Reduced(n, d, g) == [n |-> n \div g, d |-> d \div g]
Rat(n, d) ==
    IF d < 0 THEN Reduced(-n, -d, GCD(Abs(n), -d)) ELSE Reduced(n, d, GCD(Abs(n), d))

IntRat(i) == [n |-> i, d |-> 1]
RAdd(x, y) == Rat(x.n * y.d + y.n * x.d, x.d * y.d)
RSub(x, y) == Rat(x.n * y.d - y.n * x.d, x.d * y.d)
RMul(x, y) == Rat(x.n * y.n, x.d * y.d)
\* x / y for y # 0; the callers raise ZeroDivisionError when y = 0.
RDiv(x, y) == Rat(x.n * y.d, x.d * y.n)
RLt(x, y) == x.n * y.d < y.n * x.d
RLe(x, y) == x.n * y.d <= y.n * x.d
RIsZero(x) == x.n = 0

\* Python int(x): truncation toward zero.
Trunc(x) == IF x.n >= 0 THEN x.n \div x.d ELSE -((-x.n) \div x.d)

RECURSIVE Pow10(_)
Pow10(k) == IF k = 0 THEN 1 ELSE 10 * Pow10(k - 1)

\* x is a decimal with at most k fraction digits (k capped at the digits a
\* 32-bit integer holds).
HasDigits(x, k) == \E j \in 0..(IF k < 9 THEN k ELSE 9) : Pow10(j) % x.d = 0

\* Python round(x, k): the nearest multiple of 10^-k, ties to even.
\* fl = floor(x * p) and rem = x.n * p - fl * x.d, for p = 10^k.
HalfEven(fl, rem, d, p) ==
    Rat(IF 2 * rem > d \/ (2 * rem = d /\ fl % 2 = 1) THEN fl + 1 ELSE fl, p)
RoundTo(x, p) == HalfEven((x.n * p) \div x.d, (x.n * p) % x.d, x.d, p)
Round(x, k) == IF HasDigits(x, k) THEN x ELSE RoundTo(x, Pow10(k))

\* float(text) of a StringVar text, and the text var.set(x) stores for a
\* float x that was rounded to two digits.
FloatOf(h) == Rat(h, 100)
StrOf(x) == Trunc(RMul(Round(x, 2), IntRat(100)))

\* ------------------------------------------------ performance model ----
\* A Python call either returns a value or raises.
NoExc == "none"

model_result_guarded(cpi) ==
    [exc |-> NoExc, cpi |-> cpi,
     throughput |-> IF RIsZero(cpi) THEN IntRat(0) ELSE RDiv(IntRat(1), cpi)]

\* throughput = 1 / cpi; return cpi, throughput
\* The division raises ZeroDivisionError for cpi = 0.
model_result(cpi) ==
    IF RIsZero(cpi)
    THEN [exc |-> "ZeroDivisionError", cpi |-> cpi, throughput |-> IntRat(0)]
    ELSE [exc |-> NoExc, cpi |-> cpi, throughput |-> RDiv(IntRat(1), cpi)]

calculate_no_prediction_sum(Pb, Pt, b) ==
    model_result(RAdd(IntRat(1), RAdd(RMul(Pb, Pt), b)))

\* cpi = 1 + Pb * Pt * b
calculate_no_prediction(Pb, Pt, b) ==
    model_result(RAdd(IntRat(1), RMul(RMul(Pb, Pt), b)))

calculate_with_prediction_swapped(Pb, Pt, b, Pc, c) ==
    model_result(RAdd(IntRat(1),
                      RMul(Pb, RAdd(RMul(RMul(Pc, Pt), b),
                                    RMul(RMul(RSub(IntRat(1), Pc), Pt), c)))))

calculate_with_prediction_nobase(Pb, Pt, b, Pc, c) ==
    model_result(RMul(Pb, RAdd(RMul(RMul(RSub(IntRat(1), Pc), Pt), b),
                               RMul(RMul(Pc, Pt), c))))

\* cpi = 1 + Pb * ((1 - Pc) * Pt * b + Pc * Pt * c)
calculate_with_prediction(Pb, Pt, b, Pc, c) ==
    model_result(RAdd(IntRat(1),
                      RMul(Pb, RAdd(RMul(RMul(RSub(IntRat(1), Pc), Pt), b),
                                    RMul(RMul(Pc, Pt), c)))))

\* ------------------------------------------------------------- state ----
VARIABLES
    strvar,          \* texts of the numeric StringVars (range bounds, resolutions)
    pt_slider_a,     \* Scale for Pt, Part A
    b_slider_a,      \* Scale for b, Part A
    c_slider_b,      \* Scale for c, Part B
    y_axis_var_a,    \* "CPI" or "Throughput"
    y_axis_var_b,
    fig_part_a,      \* the Figure: the lines plotted on its axes
    canvas_part_a,   \* what the canvas shows: the figure as last drawn
    table_part_a,    \* rows of the DataFrame the table shows
    fig_part_b,
    canvas_part_b,
    table_part_b,
    frame_a,         \* locals of the update_*_part_a call that ran last
    frame_b,         \* locals of the update_*_part_b call that ran last
    clicks,          \* callbacks dispatched by root.mainloop() so far
    args,            \* arguments of a direct call of a calculate_* function
    ret              \* what that call returned or raised

vars == <<strvar, pt_slider_a, b_slider_a, c_slider_b, y_axis_var_a, y_axis_var_b,
          fig_part_a, canvas_part_a, table_part_a,
          fig_part_b, canvas_part_b, table_part_b,
          frame_a, frame_b, clicks, args, ret>>

part_a_vars == <<pt_slider_a, b_slider_a, y_axis_var_a,
                 fig_part_a, canvas_part_a, table_part_a, frame_a>>
part_b_vars == <<c_slider_b, y_axis_var_b,
                 fig_part_b, canvas_part_b, table_part_b, frame_b>>
call_vars == <<args, ret>>

\* The StringVars with "+" and "-" buttons, and the resolution comboboxes.
RangeVars == {"pt_min_var", "pt_max_var", "pb_min_var", "pb_max_var",
              "pc_min_var", "pc_max_var"}
ResVars == {"pt_res_var", "pb_res_var", "pc_res_var"}

\* The dropdown's entries (0.1, 0.05, 0.02, 0.01), and texts typed into the
\* editable combobox instead (0, -0.3, 0.3).
res_options == {10, 5, 2, 1}
TypedRes == {0, -30, 30}

\* Positions the sliders are moved to.
PtSliderStops == {Rat(60, 100), Rat(100, 100)}
BSliderStops == {3, 4}
CSliderStops == {0, 1, 2}

\* An unbound local of a frame.
Unbound == [n |-> 0, d |-> 0]

EmptyFigure == [ylabel |-> "", lines |-> <<>>]
NoFrame == [fn |-> "none", all_data |-> FALSE, exc |-> NoExc,
            x_min |-> Unbound, x_max |-> Unbound, x_res |-> Unbound,
            x_values |-> <<>>,
            Pt_min |-> Unbound, Pt_max |-> Unbound, pt_res |-> Unbound,
            Pt_values |-> <<>>, pen_values |-> <<>>]

InitUI ==
    /\ strvar = [v \in RangeVars \cup ResVars |->
                   CASE v = "pt_res_var" -> 10
                     [] v = "pt_min_var" -> 50
                     [] v = "pt_max_var" -> 70
                     [] v = "pb_res_var" -> 1
                     [] v = "pb_min_var" -> 20
                     [] v = "pb_max_var" -> 30
                     [] v = "pc_res_var" -> 10
                     [] v = "pc_min_var" -> 40
                     [] v = "pc_max_var" -> 80]
    /\ pt_slider_a = Rat(60, 100)
    /\ b_slider_a = 3
    /\ c_slider_b = 1
    /\ y_axis_var_a = "Throughput"
    /\ y_axis_var_b = "Throughput"
    /\ fig_part_a = EmptyFigure
    /\ canvas_part_a = EmptyFigure
    /\ table_part_a = <<>>
    /\ fig_part_b = EmptyFigure
    /\ canvas_part_b = EmptyFigure
    /\ table_part_b = <<>>
    /\ frame_a = NoFrame
    /\ frame_b = NoFrame
    /\ clicks = 0

NoCall == [fn |-> "none", exc |-> NoExc, cpi |-> IntRat(0), throughput |-> IntRat(0)]
NoArgs == [Pb |-> IntRat(0), Pt |-> IntRat(0), b |-> IntRat(0),
           Pc |-> IntRat(0), c |-> IntRat(0)]

\* ----------------------------------------------- increment, decrement ----
\* var.set(round(float(var.get()) + step, 2)), step = 0.1
increment(var) ==
    strvar' = [strvar EXCEPT
                 ![var] = StrOf(Round(RAdd(FloatOf(strvar[var]), Rat(1, 10)), 2))]

decrement_unchecked(var) ==
    strvar' = [strvar EXCEPT
                 ![var] = StrOf(Round(RSub(FloatOf(strvar[var]), Rat(1, 10)), 2))]

\* new_value = round(float(var.get()) - step, 2); set only if new_value >= 0
decrement(var) ==
    LET new_value == Round(RSub(FloatOf(strvar[var]), Rat(1, 10)), 2)
    IN  strvar' = IF RLe(IntRat(0), new_value)
                  THEN [strvar EXCEPT ![var] = StrOf(new_value)]
                  ELSE strvar

\* ------------------------------------------------------ axis building ----
\* len(range(n)): range(n) is empty for n <= 0.
range(n) == IF n > 0 THEN n ELSE 0

\* int((max - min) / res) + 1, for res # 0
range_len(mn, mx, res) == range(Trunc(RDiv(RSub(mx, mn), res)) + 1)

\* [round(min + res * i, 10) for i in range(n)]
generate_rounded(mn, res, n) ==
    [i \in 1..n |-> Round(RAdd(mn, RMul(res, IntRat(i - 1))), 10)]

\* [min + res * i for i in range(n)]
generate(mn, res, n) ==
    [i \in 1..n |-> RAdd(mn, RMul(res, IntRat(i - 1)))]

\* if values[-1] < max: values.append(max)
\* values[-1] raises IndexError for an empty list.
include_max(values, mx) ==
    IF values = <<>> THEN [exc |-> "IndexError", values |-> <<>>]
    ELSE [exc |-> NoExc,
          values |-> IF RLt(values[Len(values)], mx)
                     THEN Append(values, mx) ELSE values]

\* Part A, Pb_values and Pt_values: generated, rounded, the maximum appended
\* when the stepping stops short of it.  The division raises
\* ZeroDivisionError for res = 0.
range_values(mn, mx, res) ==
    IF RIsZero(res) THEN [exc |-> "ZeroDivisionError", values |-> <<>>]
    ELSE include_max(generate_rounded(mn, res, range_len(mn, mx, res)), mx)

\* Part B, Pc_values: generated only; no rounding, no appended maximum, no
\* indexing.
Pc_values(mn, mx, res) ==
    IF RIsZero(res) THEN [exc |-> "ZeroDivisionError", values |-> <<>>]
    ELSE [exc |-> NoExc, values |-> generate(mn, res, range_len(mn, mx, res))]

\* ------------------------------------------------------ Part A: sweep ----
\* The locals of an update_*_part_a(all_data) call once its axes are built:
\* X is the swept x axis (Pb), P the Pt axis, each [exc, values]; pens the
\* penalties.  A local after the statement that raised is unbound.
locals_part_a(all_data, x_min, x_max, x_res, X, p_min, p_max, p_res, P, pens) ==
    [all_data |-> all_data,
     exc |-> IF X.exc # NoExc THEN X.exc ELSE P.exc,
     x_min |-> x_min, x_max |-> x_max, x_res |-> x_res,
     x_values |-> X.values,
     Pt_min |-> IF all_data /\ X.exc = NoExc THEN p_min ELSE Unbound,
     Pt_max |-> IF all_data /\ X.exc = NoExc THEN p_max ELSE Unbound,
     pt_res |-> IF all_data /\ X.exc = NoExc THEN p_res ELSE Unbound,
     Pt_values |-> IF X.exc # NoExc \/ P.exc # NoExc THEN <<>> ELSE P.values,
     pen_values |-> IF X.exc # NoExc \/ P.exc # NoExc THEN <<>> ELSE pens]

axes_part_a_ptmin(all_data) ==
    locals_part_a(all_data,
        FloatOf(strvar["pb_min_var"]), FloatOf(strvar["pb_max_var"]),
        FloatOf(strvar["pb_res_var"]),
        range_values(FloatOf(strvar["pb_min_var"]), FloatOf(strvar["pb_max_var"]),
                     FloatOf(strvar["pb_res_var"])),
        FloatOf(strvar["pt_min_var"]), FloatOf(strvar["pt_max_var"]),
        FloatOf(strvar["pt_res_var"]),
        IF all_data
        THEN range_values(FloatOf(strvar["pt_min_var"]), FloatOf(strvar["pt_max_var"]),
                          FloatOf(strvar["pt_res_var"]))
        ELSE [exc |-> NoExc, values |-> <<FloatOf(strvar["pt_min_var"])>>],
        IF all_data THEN <<3, 4>> ELSE <<b_slider_a>>)

\* Pb_values from the Pb range; with all_data, Pt_values from the Pt range
\* and b_values = [3, 4]; otherwise Pt_values = [pt_slider_a.get()] and
\* b_values = [b_slider_a.get()].
axes_part_a(all_data) ==
    locals_part_a(all_data,
        FloatOf(strvar["pb_min_var"]), FloatOf(strvar["pb_max_var"]),
        FloatOf(strvar["pb_res_var"]),
        range_values(FloatOf(strvar["pb_min_var"]), FloatOf(strvar["pb_max_var"]),
                     FloatOf(strvar["pb_res_var"])),
        FloatOf(strvar["pt_min_var"]), FloatOf(strvar["pt_max_var"]),
        FloatOf(strvar["pt_res_var"]),
        IF all_data
        THEN range_values(FloatOf(strvar["pt_min_var"]), FloatOf(strvar["pt_max_var"]),
                          FloatOf(strvar["pt_res_var"]))
        ELSE [exc |-> NoExc, values |-> <<pt_slider_a>>],
        IF all_data THEN <<3, 4>> ELSE <<b_slider_a>>)

\* The exception a sweep over the axes ends in: the one of the axis
\* construction, or ZeroDivisionError of a calculate_no_prediction call.
sweep_exc_a(ax) ==
    IF ax.exc # NoExc THEN ax.exc
    ELSE IF \E i \in 1..Len(ax.pen_values), j \in 1..Len(ax.Pt_values),
               k \in 1..Len(ax.x_values) :
              calculate_no_prediction(ax.x_values[k], ax.Pt_values[j],
                                      IntRat(ax.pen_values[i])).exc # NoExc
         THEN "ZeroDivisionError" ELSE NoExc

\* One table row: Pb as generated, Pt, CPI and Throughput rounded to 3 digits.
table_row_a(Pb, Pt, b, r) ==
    [Pb |-> Pb, Pt |-> Round(Pt, 3), b |-> b,
     CPI |-> Round(r.cpi, 3), Throughput |-> Round(r.throughput, 3)]

row_a(Pb, Pt, b) == table_row_a(Pb, Pt, b, calculate_no_prediction(Pb, Pt, IntRat(b)))

\* for Pb in Pb_values: ... append
for_Pb_rows(b, Pt, Pbs) == [k \in 1..Len(Pbs) |-> row_a(Pbs[k], Pt, b)]

\* for Pt in Pt_values: for Pb in Pb_values: ...
RECURSIVE for_Pt_rows(_, _, _)
for_Pt_rows(b, Pts, Pbs) ==
    IF Pts = <<>> THEN <<>>
    ELSE for_Pb_rows(b, Head(Pts), Pbs) \o for_Pt_rows(b, Tail(Pts), Pbs)

for_b_rows_for_Pt(bs, Pt, Pbs) ==
    [k \in 1..(Len(bs) * Len(Pbs)) |->
        row_a(Pbs[((k - 1) % Len(Pbs)) + 1], Pt, bs[((k - 1) \div Len(Pbs)) + 1])]

RECURSIVE for_b_rows_pt_outer(_, _, _)
for_b_rows_pt_outer(bs, Pts, Pbs) ==
    IF Pts = <<>> THEN <<>>
    ELSE for_b_rows_for_Pt(bs, Head(Pts), Pbs) \o for_b_rows_pt_outer(bs, Tail(Pts), Pbs)

\* for b in b_values: for Pt in Pt_values: for Pb in Pb_values: ...
RECURSIVE for_b_rows(_, _, _)
for_b_rows(bs, Pts, Pbs) ==
    IF bs = <<>> THEN <<>>
    ELSE for_Pt_rows(Head(bs), Pts, Pbs) \o for_b_rows(Tail(bs), Pts, Pbs)

\* y_values = [val[0] if y_axis == "CPI" else val[1] for val in values]
y_value(val, y_axis) == IF y_axis = "CPI" THEN val.cpi ELSE val.throughput

\* One plotted line: ax.plot(Pb_values, y_values, label=f'Pt={Pt:.2f}, b={b}')
line_a(b, Pt, Pbs, y_axis) ==
    [Pt |-> Round(Pt, 2), b |-> b, x |-> Pbs,
     y |-> [k \in 1..Len(Pbs) |->
              y_value(calculate_no_prediction(Pbs[k], Pt, IntRat(b)), y_axis)]]

for_Pt_lines(b, Pts, Pbs, y_axis) ==
    [j \in 1..Len(Pts) |-> line_a(b, Pts[j], Pbs, y_axis)]

RECURSIVE for_b_lines(_, _, _, _)
for_b_lines(bs, Pts, Pbs, y_axis) ==
    IF bs = <<>> THEN <<>>
    ELSE for_Pt_lines(Head(bs), Pts, Pbs, y_axis)
         \o for_b_lines(Tail(bs), Pts, Pbs, y_axis)

\* What an update_graph_* call leaves: its locals, and the figure, which is
\* cleared first and holds the plotted lines only if nothing raised.
figure_out(fn, ax, exc, y_axis, lines) ==
    [frame |-> [ax EXCEPT !.exc = exc] @@ [fn |-> fn],
     fig |-> IF exc # NoExc THEN EmptyFigure
             ELSE [ylabel |-> y_axis, lines |-> lines]]

\* What an update_table_* call leaves: the DataFrame replaces the table's at
\* the end of the call, so a call that raises leaves the table as it was.
table_out(fn, ax, exc, old, rows) ==
    [frame |-> [ax EXCEPT !.exc = exc] @@ [fn |-> fn],
     table |-> IF exc # NoExc THEN old ELSE rows]

graph_part_a(ax, y_axis) ==
    figure_out("update_graph_part_a", ax, sweep_exc_a(ax), y_axis,
               for_b_lines(ax.pen_values, ax.Pt_values, ax.x_values, y_axis))

\* update_graph_part_a(all_data); y_axis is the text of y_axis_var_a when
\* the call runs.
update_graph_part_a(all_data, y_axis) == graph_part_a(axes_part_a(all_data), y_axis)

rows_part_a(ax) ==
    table_out("update_table_part_a", ax, sweep_exc_a(ax), table_part_a,
              for_b_rows(ax.pen_values, ax.Pt_values, ax.x_values))

update_table_part_a(all_data) == rows_part_a(axes_part_a(all_data))

\* ------------------------------------------------------ Part B: sweep ----
\* Pb, Pt, b = 0.25, 0.6, 4
Pb_b == Rat(25, 100)
Pt_b == Rat(60, 100)
b_b == IntRat(4)

\* The locals of an update_*_part_b(all_data) call: X is the Pc axis, cs
\* the c_values.
locals_part_b(all_data, x_min, x_max, x_res, X, cs) ==
    [all_data |-> all_data, exc |-> X.exc,
     x_min |-> x_min, x_max |-> x_max, x_res |-> x_res,
     x_values |-> X.values,
     Pt_min |-> Unbound, Pt_max |-> Unbound, pt_res |-> Unbound,
     Pt_values |-> <<>>,
     pen_values |-> IF X.exc # NoExc THEN <<>> ELSE cs]

\* Pc_values from the Pc range; c_values = [0, 1, 2] with all_data,
\* otherwise [c_slider_b.get()].
axes_part_b(all_data) ==
    locals_part_b(all_data,
        FloatOf(strvar["pc_min_var"]), FloatOf(strvar["pc_max_var"]),
        FloatOf(strvar["pc_res_var"]),
        Pc_values(FloatOf(strvar["pc_min_var"]), FloatOf(strvar["pc_max_var"]),
                  FloatOf(strvar["pc_res_var"])),
        IF all_data THEN <<0, 1, 2>> ELSE <<c_slider_b>>)

sweep_exc_b(ax) ==
    IF ax.exc # NoExc THEN ax.exc
    ELSE IF \E i \in 1..Len(ax.pen_values), k \in 1..Len(ax.x_values) :
              calculate_with_prediction(Pb_b, Pt_b, b_b, ax.x_values[k],
                                        IntRat(ax.pen_values[i])).exc # NoExc
         THEN "ZeroDivisionError" ELSE NoExc

\* One table row: Pc as generated, the fixed Pt and b, c, CPI and
\* Throughput rounded to 3 digits.
table_row_b(Pc, c, r) ==
    [Pc |-> Pc, Pt |-> Pt_b, b |-> 4, c |-> c,
     CPI |-> Round(r.cpi, 3), Throughput |-> Round(r.throughput, 3)]

row_b(Pc, c) ==
    table_row_b(Pc, c, calculate_with_prediction(Pb_b, Pt_b, b_b, Pc, IntRat(c)))

\* for Pc in Pc_values: ... append
for_Pc_rows(c, Pcs) == [k \in 1..Len(Pcs) |-> row_b(Pcs[k], c)]

\* for c in c_values: for Pc in Pc_values: ...
RECURSIVE for_c_rows(_, _)
for_c_rows(cs, Pcs) ==
    IF cs = <<>> THEN <<>>
    ELSE for_Pc_rows(Head(cs), Pcs) \o for_c_rows(Tail(cs), Pcs)

\* ax.plot(Pc_values, y_values, label=f'c={c}')
line_b(c, Pcs, y_axis) ==
    [c |-> c, x |-> Pcs,
     y |-> [k \in 1..Len(Pcs) |->
              y_value(calculate_with_prediction(Pb_b, Pt_b, b_b, Pcs[k], IntRat(c)),
                      y_axis)]]

\* for c in c_values: ... ax.plot
for_c_lines(cs, Pcs, y_axis) == [i \in 1..Len(cs) |-> line_b(cs[i], Pcs, y_axis)]

graph_part_b(ax, y_axis) ==
    figure_out("update_graph_part_b", ax, sweep_exc_b(ax), y_axis,
               for_c_lines(ax.pen_values, ax.x_values, y_axis))

update_graph_part_b(all_data, y_axis) == graph_part_b(axes_part_b(all_data), y_axis)

rows_part_b(ax) ==
    table_out("update_table_part_b", ax, sweep_exc_b(ax), table_part_b,
              for_c_rows(ax.pen_values, ax.x_values))

update_table_part_b(all_data) == rows_part_b(axes_part_b(all_data))

\* ----------------------------------------------------------- callbacks ----
Toggled(y) == IF y = "CPI" THEN "Throughput" ELSE "CPI"

\* root.mainloop() dispatches one more callback.
Click == clicks < MaxClicks /\ clicks' = clicks + 1

\* command=lambda: [update_graph_part_a(all_data), update_table_part_a(all_data)]
\* g and t are what the two calls leave.  An exception of the first call
\* ends the callback: the canvas is not drawn and the table call is skipped.
calculate_effects_a(g, t) ==
    /\ fig_part_a' = g.fig
    /\ canvas_part_a' = IF g.frame.exc = NoExc THEN g.fig ELSE canvas_part_a
    /\ table_part_a' = IF g.frame.exc = NoExc THEN t.table ELSE table_part_a
    /\ frame_a' = IF g.frame.exc = NoExc THEN t.frame ELSE g.frame
    /\ UNCHANGED <<strvar, pt_slider_a, b_slider_a, y_axis_var_a>>

calc_button_a ==
    /\ Click
    /\ calculate_effects_a(update_graph_part_a(FALSE, y_axis_var_a),
                           update_table_part_a(FALSE))
    /\ UNCHANGED <<part_b_vars, call_vars>>

calc_all_button_a ==
    /\ Click
    /\ calculate_effects_a(update_graph_part_a(TRUE, y_axis_var_a),
                           update_table_part_a(TRUE))
    /\ UNCHANGED <<part_b_vars, call_vars>>

\* toggle_y_axis: y_axis_var.set(...); update_func().  g is what update_func()
\* leaves.
toggle_effects_a(g) ==
    /\ y_axis_var_a' = Toggled(y_axis_var_a)
    /\ fig_part_a' = g.fig
    /\ canvas_part_a' = IF g.frame.exc = NoExc THEN g.fig ELSE canvas_part_a
    /\ frame_a' = g.frame
    /\ UNCHANGED <<strvar, pt_slider_a, b_slider_a, table_part_a>>

\* command=lambda: toggle_y_axis(y_axis_var_a, update_graph_part_a): the
\* graph is redrawn by update_graph_part_a(), that is with all_data = False.
y_axis_button_a ==
    /\ Click
    /\ toggle_effects_a(update_graph_part_a(FALSE, Toggled(y_axis_var_a)))
    /\ UNCHANGED <<part_b_vars, call_vars>>

calculate_effects_b(g, t) ==
    /\ fig_part_b' = g.fig
    /\ canvas_part_b' = IF g.frame.exc = NoExc THEN g.fig ELSE canvas_part_b
    /\ table_part_b' = IF g.frame.exc = NoExc THEN t.table ELSE table_part_b
    /\ frame_b' = IF g.frame.exc = NoExc THEN t.frame ELSE g.frame
    /\ UNCHANGED <<strvar, c_slider_b, y_axis_var_b>>

calc_button_b ==
    /\ Click
    /\ calculate_effects_b(update_graph_part_b(FALSE, y_axis_var_b),
                           update_table_part_b(FALSE))
    /\ UNCHANGED <<part_a_vars, call_vars>>

calc_all_button_b ==
    /\ Click
    /\ calculate_effects_b(update_graph_part_b(TRUE, y_axis_var_b),
                           update_table_part_b(TRUE))
    /\ UNCHANGED <<part_a_vars, call_vars>>

toggle_effects_b(g) ==
    /\ y_axis_var_b' = Toggled(y_axis_var_b)
    /\ fig_part_b' = g.fig
    /\ canvas_part_b' = IF g.frame.exc = NoExc THEN g.fig ELSE canvas_part_b
    /\ frame_b' = g.frame
    /\ UNCHANGED <<strvar, c_slider_b, table_part_b>>

y_axis_button_b ==
    /\ Click
    /\ toggle_effects_b(update_graph_part_b(FALSE, Toggled(y_axis_var_b)))
    /\ UNCHANGED <<part_a_vars, call_vars>>

\* The "+" and "-" buttons of a range bound.
plus_button(var) ==
    Click /\ increment(var) /\ UNCHANGED <<part_a_vars, part_b_vars, call_vars>>

minus_button(var) ==
    Click /\ decrement(var) /\ UNCHANGED <<part_a_vars, part_b_vars, call_vars>>

\* A resolution combobox: an entry is picked or a text typed.
res_menu(var, text) ==
    /\ Click
    /\ text # strvar[var]
    /\ strvar' = [strvar EXCEPT ![var] = text]
    /\ UNCHANGED <<part_a_vars, part_b_vars, call_vars>>

\* The sliders are moved; no callback is bound to them.
move_pt_slider_a(v) ==
    /\ Click /\ v # pt_slider_a /\ pt_slider_a' = v
    /\ UNCHANGED <<strvar, b_slider_a, y_axis_var_a, fig_part_a, canvas_part_a,
                   table_part_a, frame_a, part_b_vars, call_vars>>

move_b_slider_a(v) ==
    /\ Click /\ v # b_slider_a /\ b_slider_a' = v
    /\ UNCHANGED <<strvar, pt_slider_a, y_axis_var_a, fig_part_a, canvas_part_a,
                   table_part_a, frame_a, part_b_vars, call_vars>>

move_c_slider_b(v) ==
    /\ Click /\ v # c_slider_b /\ c_slider_b' = v
    /\ UNCHANGED <<strvar, y_axis_var_b, fig_part_b, canvas_part_b,
                   table_part_b, frame_b, part_a_vars, call_vars>>

Init == InitUI /\ args = NoArgs /\ ret = NoCall

Next ==
    \/ calc_button_a
    \/ calc_all_button_a
    \/ y_axis_button_a
    \/ calc_button_b
    \/ calc_all_button_b
    \/ y_axis_button_b
    \/ \E var \in RangeVars : plus_button(var)
    \/ \E var \in RangeVars : minus_button(var)
    \/ \E var \in ResVars, text \in res_options \cup TypedRes : res_menu(var, text)
    \/ \E v \in PtSliderStops : move_pt_slider_a(v)
    \/ \E v \in BSliderStops : move_b_slider_a(v)
    \/ \E v \in CSliderStops : move_c_slider_b(v)

Spec == Init /\ [][Next]_vars

\* ------------------------------------ the range buttons on their own ----
\* The "+" and "-" buttons alone, pressed any number of times ("+" up to
\* MaxTenths tenths).
plus_pressed(var) ==
    /\ strvar[var] < 10 * MaxTenths
    /\ increment(var)
    /\ UNCHANGED <<part_a_vars, part_b_vars, call_vars, clicks>>

minus_pressed(var) ==
    /\ decrement(var)
    /\ UNCHANGED <<part_a_vars, part_b_vars, call_vars, clicks>>

NextRange ==
    \/ \E var \in RangeVars : plus_pressed(var)
    \/ \E var \in RangeVars : minus_pressed(var)

SpecRange == Init /\ [][NextRange]_vars

\* --------------------------------- the model functions called directly ----
Probabilities ==
    {Rat(k, ProbDen) : k \in -1..(ProbDen + 1)} \cup {Pb_b, Pt_b}
Penalties == {IntRat(k) : k \in -1..MaxPenalty}

InitCall ==
    /\ InitUI
    /\ args \in [Pb : Probabilities, Pt : Probabilities, b : Penalties,
                 Pc : Probabilities, c : Penalties]
    /\ ret = NoCall

call_no_prediction ==
    /\ ret.fn = "none"
    /\ ret' = calculate_no_prediction(args.Pb, args.Pt, args.b)
                 @@ [fn |-> "calculate_no_prediction"]
    /\ UNCHANGED <<strvar, part_a_vars, part_b_vars, clicks, args>>

call_with_prediction ==
    /\ ret.fn = "none"
    /\ ret' = calculate_with_prediction(args.Pb, args.Pt, args.b, args.Pc, args.c)
                 @@ [fn |-> "calculate_with_prediction"]
    /\ UNCHANGED <<strvar, part_a_vars, part_b_vars, clicks, args>>

NextCall == call_no_prediction \/ call_with_prediction

SpecCall == InitCall /\ [][NextCall]_vars

\* =============================================================== claims ====
Zero == IntRat(0)
One == IntRat(1)

ValidRange(mn, mx, res) == RLe(mn, mx) /\ RLt(Zero, res)

\* floor((max - min) / res) for a valid range
Steps(mn, mx, res) == (RSub(mx, mn).n * res.d) \div (RSub(mx, mn).d * res.n)

\* values is min, min + res, ..., min + n * res for n = Steps, followed by
\* max as one extra point exactly when min + n * res < max; so it is not
\* empty, strictly increasing, starts at min and ends at max.
EndpointAxis(values, mn, mx, res) ==
    /\ Len(values) >= 1
    /\ values[1] = mn
    /\ values[Len(values)] = mx
    /\ \A i \in 1..(Len(values) - 1) : RLt(values[i], values[i + 1])
    /\ \A i \in 1..(Steps(mn, mx, res) + 1) :
          i <= Len(values) /\ values[i] = RAdd(mn, RMul(res, IntRat(i - 1)))
    /\ Len(values) = Steps(mn, mx, res) + 1
          + (IF RLt(RAdd(mn, RMul(res, IntRat(Steps(mn, mx, res)))), mx) THEN 1 ELSE 0)

\* The x axis (Pb in Part A, Pc in Part B) a call built from a valid range.
XAxisOk(f) ==
    (f.fn # "none" /\ ValidRange(f.x_min, f.x_max, f.x_res))
        => EndpointAxis(f.x_values, f.x_min, f.x_max, f.x_res)

\* The Pt axis of a Part A call with all_data.
PtAxisOk(f) ==
    (f.fn # "none" /\ f.all_data /\ f.Pt_min # Unbound
     /\ ValidRange(f.Pt_min, f.Pt_max, f.pt_res))
        => EndpointAxis(f.Pt_values, f.Pt_min, f.Pt_max, f.pt_res)

\* C1: every swept axis (Pb and Pt in Part A, Pc in Part B) built from a
\* range with min <= max and resolution > 0 is non-empty, strictly
\* increasing, starts at min and ends at max, max being appended as an
\* extra point when the stepping stops short of it.
C1_EveryAxisIncludesEndpoints == XAxisOk(frame_a) /\ PtAxisOk(frame_a) /\ XAxisOk(frame_b)

\* The part of C1 that is about Part A alone.
C1_PartAAxesIncludeEndpoints == XAxisOk(frame_a) /\ PtAxisOk(frame_a)

\* C2: building an axis from a range with resolution <= 0 or max < min
\* fails with an error and produces no axis.
InvalidRangeFails(f, mn, mx, res, values) ==
    (f.fn # "none" /\ mn # Unbound /\ ~ValidRange(mn, mx, res))
        => (f.exc # NoExc /\ values = <<>>)

C2_InvalidRangeRaises ==
    /\ InvalidRangeFails(frame_a, frame_a.x_min, frame_a.x_max, frame_a.x_res,
                         frame_a.x_values)
    /\ InvalidRangeFails(frame_a, frame_a.Pt_min, frame_a.Pt_max, frame_a.pt_res,
                         frame_a.Pt_values)
    /\ InvalidRangeFails(frame_b, frame_b.x_min, frame_b.x_max, frame_b.x_res,
                         frame_b.x_values)

\* C3: the table holds one row per combination, in nested order: Part A
\* row ((i-1)*|Pt| + (j-1))*|Pb| + k is (b_i, Pt_j, Pb_k), Part B row
\* (i-1)*|Pc| + k is (c_i, Pc_k).
NestedA(f, t) ==
    /\ Len(t) = Len(f.pen_values) * Len(f.Pt_values) * Len(f.x_values)
    /\ \A i \in 1..Len(f.pen_values), j \in 1..Len(f.Pt_values),
          k \in 1..Len(f.x_values) :
          /\ t[((i - 1) * Len(f.Pt_values) + (j - 1)) * Len(f.x_values) + k].b
                = f.pen_values[i]
          /\ t[((i - 1) * Len(f.Pt_values) + (j - 1)) * Len(f.x_values) + k].Pt
                = Round(f.Pt_values[j], 3)
          /\ t[((i - 1) * Len(f.Pt_values) + (j - 1)) * Len(f.x_values) + k].Pb
                = f.x_values[k]

NestedB(f, t) ==
    /\ Len(t) = Len(f.pen_values) * Len(f.x_values)
    /\ \A i \in 1..Len(f.pen_values), k \in 1..Len(f.x_values) :
          /\ t[(i - 1) * Len(f.x_values) + k].c = f.pen_values[i]
          /\ t[(i - 1) * Len(f.x_values) + k].Pc = f.x_values[k]

C3_NestedOrder ==
    /\ (frame_a.fn = "update_table_part_a" /\ frame_a.exc = NoExc)
          => NestedA(frame_a, table_part_a)
    /\ (frame_b.fn = "update_table_part_b" /\ frame_b.exc = NoExc)
          => NestedB(frame_b, table_part_b)

C3_Witness ==
    /\ frame_a.fn = "update_table_part_a" /\ frame_a.all_data
    /\ Len(frame_a.pen_values) = 2 /\ Len(frame_a.Pt_values) = 3
    /\ Len(frame_a.x_values) = 11 /\ Len(table_part_a) = 66
    /\ frame_b.fn = "update_table_part_b" /\ frame_b.all_data
    /\ Len(table_part_b) = 15

\* C4 as stated: after "calculate one" every dimension that "calculate all"
\* sweeps has a one-element axis.
OneElementAxes(f) ==
    (f.fn \in {"update_table_part_a", "update_table_part_b"}
     /\ ~f.all_data /\ f.exc = NoExc)
        => (Len(f.x_values) = 1 /\ Len(f.pen_values) = 1)

C4_SingleModeA ==
    (/\ UNCHANGED <<strvar, pt_slider_a, b_slider_a, y_axis_var_a, part_b_vars>>
     /\ calc_button_a
     /\ frame_a'.exc = NoExc) =>
        /\ frame_a'.fn = "update_table_part_a"
        /\ frame_a'.Pt_values = <<pt_slider_a>>
        /\ frame_a'.pen_values = <<b_slider_a>>
        /\ frame_a'.x_values =
              range_values(FloatOf(strvar["pb_min_var"]), FloatOf(strvar["pb_max_var"]),
                           FloatOf(strvar["pb_res_var"])).values
        /\ table_part_a' = for_b_rows(<<b_slider_a>>, <<pt_slider_a>>, frame_a'.x_values)

C4_SingleModeB ==
    (/\ UNCHANGED <<strvar, c_slider_b, y_axis_var_b, part_a_vars>>
     /\ calc_button_b
     /\ frame_b'.exc = NoExc) =>
        /\ frame_b'.fn = "update_table_part_b"
        /\ frame_b'.pen_values = <<c_slider_b>>
        /\ frame_b'.x_values =
              Pc_values(FloatOf(strvar["pc_min_var"]), FloatOf(strvar["pc_max_var"]),
                        FloatOf(strvar["pc_res_var"])).values
        /\ table_part_b' = for_c_rows(<<c_slider_b>>, frame_b'.x_values)

InUnit(p) == RLe(Zero, p) /\ RLe(p, One)

InDomain ==
    /\ InUnit(args.Pb) /\ InUnit(args.Pt) /\ RLe(Zero, args.b)
    /\ ret.fn = "calculate_with_prediction" => (InUnit(args.Pc) /\ RLe(Zero, args.c))

C5_CpiAtLeastOne ==
    ret.fn # "none" =>
        /\ InDomain => (ret.exc = NoExc /\ RLe(One, ret.cpi) /\ RLt(Zero, ret.throughput))
        /\ RIsZero(ret.cpi) <=> ret.exc = "ZeroDivisionError"

C5_Witness ==
    /\ ret.fn = "calculate_with_prediction" /\ InDomain
    /\ RLt(One, ret.cpi) /\ RLt(ret.throughput, One)

\* A call of calculate_with_prediction ended as calculate_no_prediction(Pb, Pt, pen).
SameAsNoPrediction(pen) ==
    /\ ret.exc = calculate_no_prediction(args.Pb, args.Pt, pen).exc
    /\ ret.cpi = calculate_no_prediction(args.Pb, args.Pt, pen).cpi
    /\ ret.throughput = calculate_no_prediction(args.Pb, args.Pt, pen).throughput

\* C6: with_prediction(Pb, Pt, b, 1, c) = no_prediction(Pb, Pt, c) and
\* with_prediction(Pb, Pt, b, 0, c) = no_prediction(Pb, Pt, b).
C6_PerfectAndNoPrediction ==
    ret.fn = "calculate_with_prediction" =>
        /\ args.Pc = One => SameAsNoPrediction(args.c)
        /\ args.Pc = Zero => SameAsNoPrediction(args.b)

C6_Witness ==
    /\ ret.fn = "calculate_with_prediction" /\ ret.exc = NoExc
    /\ args.Pc = One /\ args.b # args.c
    /\ RLt(Zero, args.Pb) /\ RLt(Zero, args.Pt) /\ RLt(Zero, args.c)
    /\ RLt(One, ret.cpi)

\* C7: no_prediction returns cpi = 1 + Pb*Pt*b (here with the denominators
\* multiplied out) and throughput = 1/cpi, so cpi * throughput = 1;
\* no_prediction(0.25, 0.6, 4) gives cpi = 1.6 and throughput = 0.625.
C7_NoPredictionFormula ==
    (ret.fn = "calculate_no_prediction" /\ ret.exc = NoExc) =>
        /\ ret.cpi.n * (args.Pb.d * args.Pt.d * args.b.d)
              = ret.cpi.d * (args.Pb.d * args.Pt.d * args.b.d
                             + args.Pb.n * args.Pt.n * args.b.n)
        /\ ret.cpi.n * ret.throughput.n = ret.cpi.d * ret.throughput.d
        /\ (args.Pb = Rat(25, 100) /\ args.Pt = Rat(6, 10) /\ args.b = IntRat(4))
              => (ret.cpi = Rat(16, 10) /\ ret.throughput = Rat(625, 1000))

C7_Witness ==
    /\ ret.fn = "calculate_no_prediction" /\ ret.exc = NoExc
    /\ args.Pb = Rat(25, 100) /\ args.Pt = Rat(6, 10) /\ args.b = IntRat(4)
    /\ ret.cpi = Rat(16, 10)

\* C8: with_prediction returns cpi = 1 + Pb*((1 - Pc)*Pt*b + Pc*Pt*c) (with
\* the denominators multiplied out) and throughput = 1/cpi;
\* with_prediction(0.25, 0.6, 4, 0.5, 1) gives cpi = 1.375, throughput 0.7273.
C8_WithPredictionFormula ==
    (ret.fn = "calculate_with_prediction" /\ ret.exc = NoExc) =>
        /\ ret.cpi.n * (args.Pb.d * args.Pt.d * args.Pc.d)
              = ret.cpi.d * (args.Pb.d * args.Pt.d * args.Pc.d
                             + args.Pb.n * args.Pt.n
                               * ((args.Pc.d - args.Pc.n) * args.b.n
                                  + args.Pc.n * args.c.n))
        /\ ret.cpi.n * ret.throughput.n = ret.cpi.d * ret.throughput.d
        /\ (args.Pb = Rat(25, 100) /\ args.Pt = Rat(6, 10) /\ args.b = IntRat(4)
            /\ args.Pc = Rat(5, 10) /\ args.c = IntRat(1))
              => (ret.cpi = Rat(1375, 1000) /\ Round(ret.throughput, 4) = Rat(7273, 10000))

C8_Witness ==
    /\ ret.fn = "calculate_with_prediction" /\ ret.exc = NoExc
    /\ args.Pb = Rat(25, 100) /\ args.Pt = Rat(6, 10) /\ args.b = IntRat(4)
    /\ args.Pc = Rat(5, 10) /\ args.c = IntRat(1)
    /\ ret.cpi = Rat(1375, 1000)

\* C9: once a tab shows a graph and a table, the two cover the same input
\* combinations: every plotted point (x, held values) has a table row and
\* every table row a plotted point.
GraphPointsA(fig) ==
    UNION {{<<fig.lines[i].x[k], fig.lines[i].Pt, fig.lines[i].b>> :
              k \in 1..Len(fig.lines[i].x)} : i \in 1..Len(fig.lines)}
TablePointsA(t) == {<<t[i].Pb, Round(t[i].Pt, 2), t[i].b>> : i \in 1..Len(t)}
GraphPointsB(fig) ==
    UNION {{<<fig.lines[i].x[k], fig.lines[i].c>> : k \in 1..Len(fig.lines[i].x)} :
             i \in 1..Len(fig.lines)}
TablePointsB(t) == {<<t[i].Pc, t[i].c>> : i \in 1..Len(t)}

C9_GraphMatchesTable ==
    /\ (table_part_a # <<>> /\ canvas_part_a.lines # <<>>)
          => GraphPointsA(canvas_part_a) = TablePointsA(table_part_a)
    /\ (table_part_b # <<>> /\ canvas_part_b.lines # <<>>)
          => GraphPointsB(canvas_part_b) = TablePointsB(table_part_b)

\* C10: every range bound stays >= 0; a "-" press leaves the bound unchanged
\* when one step down would be negative and otherwise lowers it by one step
\* (10 hundredths).
RangeBoundsNonNegative == \A var \in RangeVars : strvar[var] >= 0

MinusStep ==
    \A var \in RangeVars :
        minus_pressed(var) =>
            strvar'[var] = IF strvar[var] - 10 < 0 THEN strvar[var] ELSE strvar[var] - 10

C10_BoundsStayNonNegative == []RangeBoundsNonNegative /\ [][MinusStep]_vars

C10_Witness ==
    /\ strvar["pb_min_var"] = 0 /\ strvar["pt_min_var"] = 0 /\ strvar["pc_min_var"] = 0
    /\ strvar["pb_max_var"] = 10

====
